---------------------------- MODULE Spec2Model ----------------------------
(***************************************************************************)
(* Model of juggling.tracker.Tracker (src/juggling/tracker.py).           *)
(*                                                                         *)
(* The Tracker owns three index-aligned lists (circles, region, ignore),  *)
(* each None until the first update().  Circle, UpDownMotionTracker and   *)
(* Matcher are collaborators whose code is not part of tracker.py; they   *)
(* are modelled from their contracts (spec.md, section 6).                *)
(*                                                                         *)
(* Python indices are kept 0-based for result.index_circle (the code      *)
(* indexes Python lists with it); TLA+ sequences are 1-based, so PyIndex  *)
(* converts.  Candidate centers are numbered 1..M in rectangle order.     *)
(***************************************************************************)
EXTENDS Integers, Sequences, FiniteSets

VARIABLES
    circles,    \* self.__circles : None or the list of Circle
    region,     \* self.__region  : None or the list of UpDownMotionTracker
    ignore,     \* self.__ignore  : None or the list of miss counters
    skip,       \* self.__skip
    height,     \* self.__height
    width,      \* self.__width
    op,         \* the last call: "update", "predict", or "none" before any
    path,       \* the path it took: "init", "match" or "noop"
    arg,        \* the list given to the last call, if predict() or the first update()
    results,    \* what Matcher.match returned in the last call
    calls,      \* Matcher.match calls made by the last call
    tracked,    \* UpDownMotionTracker.track calls of the last call: <<index, position>>
    last,       \* per object: the latest AssignmentResult it received, and its fate
    assignment, \* the last predict(): centers, predicted points, claimed candidates
    err,        \* the exception the last call raised, or "none"
    ret         \* what the last call returned; None for update() and predict()

vars == <<circles, region, ignore, skip, height, width,
          op, path, arg, results, calls, tracked, last, assignment, err, ret>>

-----------------------------------------------------------------------------
(* Bounds and input domains *)

\* Largest position list handed to update().
MaxN == 2
\* Largest rectangle sequence handed to predict().
MaxRects == 2
\* Cap of a motion counter's cycle count.
MaxCount == 1
\* Largest roster and largest rectangle sequence of the assignment runs.
MaxRoster == 2
MaxCandidates == 3
\* Largest position list handed to update() when the Matcher returns any index.
MaxMalformed == 1

\* (x, y, radius) triples a caller passes to update().
Positions == {<<0, 0, 1>>, <<0, 2, 1>>}
\* (x, y, w, h) rectangles of the detector; the center is (0,0).
Rects == {<<-1, 0, 1, 1>>}
\* Positions and rectangles of the assignment runs; the rectangles' centers
\* are (0,0), (0,2) and (0,3).
AssignPositions == {<<0, 0, 1>>, <<0, 1, 2>>}
AssignRects == {<<-1, 0, 1, 1>>, <<0, 1, 0, 2>>, <<0, 3, 1, 0>>}
\* (height, width) of the image.
FrameSizes == {<<480, 640>>}

-----------------------------------------------------------------------------
(* Python values *)

\* None / a value that is not None.
None == {}
Some(x) == {x}
Get(o) == CHOOSE x \in o : TRUE

Range(s) == {s[j] : j \in 1..Len(s)}

SeqsUpTo(S, n) == UNION {[1..m -> S] : m \in 0..n}

\* list[k] of a Python list of length n: the 1-based position, 0 for IndexError.
PyIndex(n, k) ==
    IF k >= 0 /\ k < n THEN k + 1
    ELSE IF k < 0 /\ -k <= n THEN n + k + 1
    ELSE 0

\* int(v) of the float v = num / 2: truncation toward zero.
IntHalf(num) == IF num >= 0 THEN num \div 2 ELSE -((-num) \div 2)

-----------------------------------------------------------------------------
(* Collaborators, from their contracts *)

\* Circle(position, None): a circle at position; id is the object's identity.
Circle(position, id) == [id |-> id, pos |-> position, visible |-> TRUE]

\* Circle.update(position): stores position and radius, marks visible.
Circle_update(c, position) == [c EXCEPT !.pos = position, !.visible = TRUE]

\* Circle.invisible(): clears the visibility flag.
Circle_invisible(c) == [c EXCEPT !.visible = FALSE]

\* Circle.get_radius().
get_radius(c) == c.pos[3]

\* Circle.get_x_telemetry().predict_position(), get_y_telemetry().predict_position():
\* a function of the circle's history alone, here the position last stored.
predict_position(c) == <<c.pos[1], c.pos[2]>>

\* UpDownMotionTracker(): no sample yet, no complete motion.
UpDownMotionTracker == [sample |-> None, count |-> 0]

\* UpDownMotionTracker.track(position): takes the sample; a motion is complete
\* when the sample lies below the one before it (y grows downward).  The count
\* never decreases.
UpDownMotionTracker_track(m, position) ==
    [sample |-> Some(position),
     count  |-> IF m.sample # None /\ position[2] > Get(m.sample)[2] /\ m.count < MaxCount
                THEN m.count + 1 ELSE m.count]

\* UpDownMotionTracker.get_count().
get_count(m) == m.count

\* The AssignmentResult sequences over the objects idx: at most one result
\* per object, in any order, each pairing its object with one of the new
\* positions, no position paired twice.
MatchResults(idx, next_positions) ==
    LET R == [index_circle : idx, relible : BOOLEAN, j : 1..Len(next_positions)]
        n == IF Len(next_positions) < Cardinality(idx)
             THEN Len(next_positions) ELSE Cardinality(idx)
        S == {s \in SeqsUpTo(R, n) :
                \A a, b \in 1..Len(s) :
                    a # b => s[a].index_circle # s[b].index_circle /\ s[a].j # s[b].j}
    IN {[a \in 1..Len(s) |->
            [index_circle |-> s[a].index_circle, relible |-> s[a].relible,
             next_position |-> next_positions[s[a].j]]] : s \in S}

\* Matcher(height, width, circles).match(next_positions).
Matcher_match(cs, next_positions) == MatchResults(0..(Len(cs) - 1), next_positions)

\* A Matcher that breaks its contract on the indices: index_circle is any
\* of -(n+1)..n for a roster of n.
Matcher_match_unchecked(cs, next_positions) ==
    MatchResults((0 - Len(cs) - 1)..Len(cs), next_positions)

-----------------------------------------------------------------------------
(* Tracker *)

\* Tracker.__ignore_threshold
ignore_threshold == 0

\* No predict() ran in the call.
NoAssignment ==
    [centers |-> <<>>, points |-> <<>>, claimed |-> <<>>, predicted_positions |-> <<>>]

\* The Tracker object with the record of the call in progress.
Self ==
    [circles |-> circles, region |-> region, ignore |-> ignore, skip |-> skip,
     op |-> "none", path |-> "noop", arg |-> <<>>, results |-> <<>>, calls |-> 0,
     tracked |-> <<>>, last |-> last, assignment |-> NoAssignment, err |-> "none",
     ret |-> None]

\* No AssignmentResult received yet.  before is the object's miss counter
\* when the result arrived; same tells that the result was reliable and so
\* was the one before it for this object, with the same position.
NoResult ==
    [seen |-> FALSE, relible |-> FALSE, accepted |-> FALSE, before |-> 0, same |-> FALSE]

\* Tracker.__len__
len(self) == IF self.circles = None THEN 0 ELSE Len(Get(self.circles))

\* Tracker.get_circles
get_circles(self) == self.circles

\* Tracker.get_complete_motions: self.__region[index].get_count().  None is
\* not subscriptable (TypeError); a list takes the indices -n..n-1, the
\* negative ones counting from its end, and raises IndexError for the others.
get_complete_motions(self, index) ==
    IF self.region = None THEN [self EXCEPT !.err = "TypeError"]
    ELSE LET rg == Get(self.region)
             k  == PyIndex(Len(rg), index)
         IN IF k = 0 THEN [self EXCEPT !.err = "IndexError"]
            ELSE [self EXCEPT !.ret = Some(get_count(rg[k]))]

\* __update_state, were the miss counter not reset.
update_state_keeps_count(self, index_circle, position) ==
    LET cs == Get(self.circles)
        k  == PyIndex(Len(cs), index_circle)
    IN IF k = 0 THEN [self EXCEPT !.err = "IndexError"]
       ELSE [self EXCEPT
               !.circles = Some([cs EXCEPT ![k] = Circle_update(@, position)]),
               !.region  = Some([Get(self.region) EXCEPT
                                   ![k] = UpDownMotionTracker_track(@, position)]),
               !.tracked = Append(@, <<k, position>>)]

\* Tracker.__update_state: the three statements in order; an index outside
\* the lists raises IndexError at the first of them.
update_state(self, index_circle, position) ==
    LET cs == Get(self.circles)
        k  == PyIndex(Len(cs), index_circle)
    IN IF k = 0 THEN [self EXCEPT !.err = "IndexError"]
       ELSE [self EXCEPT
               !.circles = Some([cs EXCEPT ![k] = Circle_update(@, position)]),
               !.region  = Some([Get(self.region) EXCEPT
                                   ![k] = UpDownMotionTracker_track(@, position)]),
               !.ignore  = Some([Get(self.ignore) EXCEPT ![k] = 0]),
               !.tracked = Append(@, <<k, position>>)]

\* __mark_circles_invisible, were the flags left as they are.
mark_circles_invisible_skipped(self) == self

\* __mark_circles_invisible, were a miss counted for every circle as well.
mark_circles_invisible_counts_miss(self) ==
    LET cs == Get(self.circles)
        ig == Get(self.ignore)
    IN [self EXCEPT
          !.circles = Some([k \in 1..Len(cs) |-> Circle_invisible(cs[k])]),
          !.ignore  = Some([k \in 1..Len(ig) |-> ig[k] + 1])]

\* Tracker.__mark_circles_invisible
mark_circles_invisible(self) ==
    LET cs == Get(self.circles)
    IN [self EXCEPT !.circles = Some([k \in 1..Len(cs) |-> Circle_invisible(cs[k])])]

\* accepts, were the miss counter left out of the test.
accepts_reliable_only(self, result) == result.relible

\* accepts, were the miss counter let one past the threshold.
accepts_past_next_threshold(self, result) ==
    \/ result.relible
    \/ Get(self.ignore)[PyIndex(Len(Get(self.ignore)), result.index_circle)]
          > ignore_threshold + 1

\* accepts, were the reliability flag left out of the test.
accepts_past_threshold_only(self, result) ==
    Get(self.ignore)[PyIndex(Len(Get(self.ignore)), result.index_circle)]
        > ignore_threshold

\* The test of line 137: the result is reliable, or the object's miss
\* counter is past the threshold.
accepts(self, result) ==
    \/ result.relible
    \/ Get(self.ignore)[PyIndex(Len(Get(self.ignore)), result.index_circle)]
          > ignore_threshold

\* match_result, were a rejected result's position stored all the same.
match_result_moves_rejected(self, result) ==
    LET ig == Get(self.ignore)
        cs == Get(self.circles)
        k  == PyIndex(Len(ig), result.index_circle)
    IN IF ~result.relible /\ k = 0 THEN [self EXCEPT !.err = "IndexError"]
       ELSE IF accepts(self, result) THEN
           LET s == update_state(self, result.index_circle, result.next_position)
           IN IF s.err # "none" THEN s
              ELSE [s EXCEPT !.last[k] =
                      [seen |-> TRUE, relible |-> result.relible,
                       accepted |-> TRUE, before |-> ig[k], same |-> FALSE]]
       ELSE [self EXCEPT
               !.circles = Some([cs EXCEPT ![k].pos = result.next_position]),
               !.ignore = Some([ig EXCEPT ![k] = @ + 1]),
               !.last[k] = [seen |-> TRUE, relible |-> FALSE,
                            accepted |-> FALSE, before |-> ig[k], same |-> FALSE]]

\* One turn of the loop of __match_circles (lines 136-140).  Reading
\* self.__ignore[index_circle] raises IndexError for an index outside the list.
match_result(self, result) ==
    LET ig == Get(self.ignore)
        k  == PyIndex(Len(ig), result.index_circle)
    IN IF ~result.relible /\ k = 0 THEN [self EXCEPT !.err = "IndexError"]
       ELSE IF accepts(self, result) THEN
           LET s == update_state(self, result.index_circle, result.next_position)
           IN IF s.err # "none" THEN s
              ELSE [s EXCEPT !.last[k] =
                      [seen |-> TRUE, relible |-> result.relible,
                       accepted |-> TRUE, before |-> ig[k],
                       same |-> /\ result.relible
                                /\ self.last[k].seen /\ self.last[k].relible
                                /\ Get(self.circles)[k].pos = result.next_position]]
       ELSE [self EXCEPT
               !.ignore = Some([ig EXCEPT ![k] = @ + 1]),
               !.last[k] = [seen |-> TRUE, relible |-> FALSE,
                            accepted |-> FALSE, before |-> ig[k], same |-> FALSE]]

\* The loop of __match_circles over results[j..]; an exception ends it.
RECURSIVE match_loop(_, _, _)
match_loop(self, res, j) ==
    IF j > Len(res) \/ self.err # "none" THEN self
    ELSE match_loop(match_result(self, res[j]), res, j + 1)

\* Tracker.__match_circles, res being what Matcher.match returns.
match_circles(self, next_positions, res) ==
    LET s == mark_circles_invisible(self)
    IN match_loop([s EXCEPT !.results = res, !.calls = @ + 1], res, 1)

\* unset, were an empty roster taken for no roster.
unset_or_empty(self) == self.circles = None \/ Get(self.circles) = <<>>

\* The test of line 98: no roster yet.
unset(self) == self.circles = None

\* initialize, were every circle built from the first position.
initialize_first_position(self, next_positions) ==
    LET n == Len(next_positions)
    IN [self EXCEPT
          !.circles = Some([i \in 1..n |-> Circle(next_positions[1], i)]),
          !.region  = Some([i \in 1..n |-> UpDownMotionTracker]),
          !.ignore  = Some([i \in 1..n |-> 0]),
          !.last    = [i \in 1..n |-> NoResult],
          !.path    = "init",
          !.arg     = next_positions]

\* The initializing path of update (lines 99-101).
initialize(self, next_positions) ==
    LET n == Len(next_positions)
    IN [self EXCEPT
          !.circles = Some([i \in 1..n |-> Circle(next_positions[i], i)]),
          !.region  = Some([i \in 1..n |-> UpDownMotionTracker]),
          !.ignore  = Some([i \in 1..n |-> 0]),
          !.last    = [i \in 1..n |-> NoResult],
          !.path    = "init",
          !.arg     = next_positions]

\* Tracker.update
update(self, next_positions, res) ==
    LET s == IF unset(self) THEN initialize(self, next_positions)
             ELSE match_circles([self EXCEPT !.path = "match"], next_positions, res)
    IN IF s.err # "none" THEN s ELSE [s EXCEPT !.skip = 0]

\* The center of a rectangle (lines 67-69): int(x + w / 2), int(y + h / 2).
rect_center(rect) == <<IntHalf(2 * rect[1] + rect[3]), IntHalf(2 * rect[2] + rect[4])>>

\* centers, in rectangle order.
rect_centers(rectangles) == [j \in 1..Len(rectangles) |-> rect_center(rectangles[j])]

\* numpy.sum((centers - point)**2, axis=1)
distances(centers, point) ==
    [j \in 1..Len(centers) |->
        (centers[j][1] - point[1]) * (centers[j][1] - point[1])
      + (centers[j][2] - point[2]) * (centers[j][2] - point[2])]

IndexOrders(m) == {p \in [1..m -> 1..m] : \A a, b \in 1..m : a # b => p[a] # p[b]}

\* numpy's distances.argsort(): the index orders that sort d ascending.  The
\* default kind is quicksort, which is not stable: equal distances may come
\* out in either order.
argsort(d) ==
    {p \in IndexOrders(Len(d)) : \A a, b \in 1..Len(d) : a < b => d[p[a]] <= d[p[b]]}

\* The inner loop, were the assigned segments not skipped.
first_closest(closest_indexes, segment_assigned_map) == closest_indexes[1]

\* The inner loop, were closest_indexes walked from its far end.
last_unassigned(closest_indexes, segment_assigned_map) ==
    LET free == {a \in 1..Len(closest_indexes) :
                    ~segment_assigned_map[closest_indexes[a]]}
    IN IF free = {} THEN 0
       ELSE closest_indexes[CHOOSE a \in free : \A b \in free : a >= b]

\* The inner loop (lines 84-88): the first index of closest_indexes whose
\* segment is not assigned yet, 0 when all are.
first_unassigned(closest_indexes, segment_assigned_map) ==
    LET free == {a \in 1..Len(closest_indexes) :
                    ~segment_assigned_map[closest_indexes[a]]}
    IN IF free = {} THEN 0
       ELSE closest_indexes[CHOOSE a \in free : \A b \in free : a <= b]

\* assign, were the circle's own position entered for a circle left with no
\* candidate.
RECURSIVE assign_padded(_, _, _, _)
assign_padded(cs, centers, orders, k) ==
    IF k = 0 THEN
        [segment_assigned_map |-> [j \in 1..Len(centers) |-> FALSE],
         predicted_positions |-> <<>>, claimed |-> <<>>]
    ELSE
        LET a     == assign_padded(cs, centers, orders, k - 1)
            index == first_unassigned(orders[k], a.segment_assigned_map)
        IN IF index = 0
           THEN [a EXCEPT !.claimed = Append(@, 0),
                          !.predicted_positions = Append(@, cs[k].pos)]
           ELSE [segment_assigned_map |-> [a.segment_assigned_map EXCEPT ![index] = TRUE],
                 predicted_positions |->
                     Append(a.predicted_positions,
                            <<centers[index][1], centers[index][2], get_radius(cs[k])>>),
                 claimed |-> Append(a.claimed, index)]

\* The loop over the circles (lines 71-88) after circle k: orders[k] is the
\* argsort outcome of circle k.
RECURSIVE assign(_, _, _, _)
assign(cs, centers, orders, k) ==
    IF k = 0 THEN
        [segment_assigned_map |-> [j \in 1..Len(centers) |-> FALSE],
         predicted_positions |-> <<>>, claimed |-> <<>>]
    ELSE
        LET a     == assign(cs, centers, orders, k - 1)
            index == first_unassigned(orders[k], a.segment_assigned_map)
        IN IF index = 0 THEN [a EXCEPT !.claimed = Append(@, 0)]
           ELSE [segment_assigned_map |-> [a.segment_assigned_map EXCEPT ![index] = TRUE],
                 predicted_positions |->
                     Append(a.predicted_positions,
                            <<centers[index][1], centers[index][2], get_radius(cs[k])>>),
                 claimed |-> Append(a.claimed, index)]

\* The point predicted for each circle (lines 75-76, 81).
points_of(cs) == [k \in 1..Len(cs) |-> predict_position(cs[k])]

\* The argsort outcomes possible for each circle.
Orders(cs, centers) ==
    LET sorted == [k \in 1..Len(cs) |-> argsort(distances(centers, points_of(cs)[k]))]
    IN {o \in [1..Len(cs) -> IndexOrders(Len(centers))] :
          \A k \in 1..Len(cs) : o[k] \in sorted[k]}

\* The loop of predict() over all the circles.
predicted(self, rectangles, orders) ==
    LET cs == Get(self.circles)
    IN assign(cs, rect_centers(rectangles), orders, Len(cs))

\* The test of line 63, were the empty rectangle sequence let through.
returns_early_unset_only(self, rectangles) == self.circles = None

\* The test of line 63: nothing to do.
returns_early(self, rectangles) == self.circles = None \/ Len(rectangles) = 0

\* Tracker.predict
predict(self, rectangles, orders, res) ==
    IF returns_early(self, rectangles) THEN [self EXCEPT !.path = "noop"]
    ELSE
        LET a == predicted(self, rectangles, orders)
        IN update([self EXCEPT !.assignment =
                      [centers |-> rect_centers(rectangles),
                       points |-> points_of(Get(self.circles)),
                       claimed |-> a.claimed,
                       predicted_positions |-> a.predicted_positions]],
                  a.predicted_positions, res)

-----------------------------------------------------------------------------
(* The state machine *)

Commit(s) ==
    /\ circles' = s.circles
    /\ region' = s.region
    /\ ignore' = s.ignore
    /\ skip' = s.skip
    /\ op' = s.op
    /\ path' = s.path
    /\ arg' = s.arg
    /\ results' = s.results
    /\ calls' = s.calls
    /\ tracked' = s.tracked
    /\ last' = s.last
    /\ assignment' = s.assignment
    /\ err' = s.err
    /\ ret' = s.ret
    /\ UNCHANGED <<height, width>>

\* Tracker(height, width)
Init ==
    /\ circles = None
    /\ region = None
    /\ ignore = None
    /\ skip = 0
    /\ \E size \in FrameSizes : height = size[1] /\ width = size[2]
    /\ op = "none"
    /\ path = "noop"
    /\ arg = <<>>
    /\ results = <<>>
    /\ calls = 0
    /\ tracked = <<>>
    /\ last = <<>>
    /\ assignment = NoAssignment
    /\ err = "none"
    /\ ret = None

\* What Matcher.match may return to update(next_positions); nothing on the
\* initializing path, which does not call it.
Returned(self, next_positions) ==
    IF unset(self) THEN {<<>>}
    ELSE Matcher_match(Get(self.circles), next_positions)

\* A call of update(next_positions).
UpdateCall ==
    \E next_positions \in SeqsUpTo(Positions, MaxN) :
    \E res \in Returned(Self, next_positions) :
        Commit(update([Self EXCEPT !.op = "update"], next_positions, res))

\* A call of predict(rectangles).
PredictCall ==
    \E rectangles \in SeqsUpTo(Rects, MaxRects) :
        IF returns_early(Self, rectangles)
        THEN Commit(predict([Self EXCEPT !.op = "predict", !.arg = rectangles],
                            rectangles, <<>>, <<>>))
        ELSE
            \E orders \in Orders(Get(Self.circles), rect_centers(rectangles)) :
            \E res \in Returned(Self, predicted(Self, rectangles, orders).predicted_positions) :
                Commit(predict([Self EXCEPT !.op = "predict", !.arg = rectangles],
                               rectangles, orders, res))

Next == UpdateCall \/ PredictCall

Spec == Init /\ [][Next]_vars

-----------------------------------------------------------------------------
(* The assignment of predict() on its own: rosters of up to MaxRoster circles
   and up to MaxCandidates rectangles, the Matcher returning no result. *)

\* The first update(next_positions), which creates the roster.
CreateCall ==
    /\ unset(Self)
    /\ \E next_positions \in SeqsUpTo(AssignPositions, MaxRoster) :
          Commit(update([Self EXCEPT !.op = "update"], next_positions, <<>>))

\* A call of predict(rectangles) to which Matcher.match returns no result.
AssignCall ==
    \E rectangles \in SeqsUpTo(AssignRects, MaxCandidates) :
        IF returns_early(Self, rectangles)
        THEN Commit(predict([Self EXCEPT !.op = "predict", !.arg = rectangles],
                            rectangles, <<>>, <<>>))
        ELSE
            \E orders \in Orders(Get(Self.circles), rect_centers(rectangles)) :
                Commit(predict([Self EXCEPT !.op = "predict", !.arg = rectangles],
                               rectangles, orders, <<>>))

NextAssign == CreateCall \/ AssignCall

SpecAssign == Init /\ [][NextAssign]_vars

-----------------------------------------------------------------------------
(* The queries: rosters of up to MaxRoster circles, the Matcher returning
   reliable results only, and calls of get_complete_motions() and len(). *)

\* The indices asked of get_complete_motions().
Indexes == (0 - MaxRoster - 1)..MaxRoster

\* A call of update(next_positions) whose results are all reliable.
TrackCall ==
    /\ ~unset(Self)
    /\ \E next_positions \in SeqsUpTo(AssignPositions, MaxRoster) :
       \E res \in Returned(Self, next_positions) :
          /\ \A a \in 1..Len(res) : res[a].relible
          /\ Commit(update([Self EXCEPT !.op = "update"], next_positions, res))

\* A call of get_complete_motions(index).
GetCompleteMotionsCall ==
    \E index \in Indexes :
        Commit(get_complete_motions(
                  [Self EXCEPT !.op = "get_complete_motions", !.arg = <<index>>], index))

\* A call of len(tracker).
LenCall == Commit([Self EXCEPT !.op = "len", !.ret = Some(len(Self))])

NextQuery == CreateCall \/ TrackCall \/ GetCompleteMotionsCall \/ LenCall

SpecQuery == Init /\ [][NextQuery]_vars

-----------------------------------------------------------------------------
(* Results with an index outside the roster: rosters of up to MaxRoster
   circles and a Matcher that returns any index. *)

\* A call of update(next_positions) to which Matcher.match returns results
\* whose index_circle may lie outside the roster.
MalformedCall ==
    /\ ~unset(Self)
    /\ \E next_positions \in SeqsUpTo(AssignPositions, MaxMalformed) :
       \E res \in Matcher_match_unchecked(Get(Self.circles), next_positions) :
          Commit(update([Self EXCEPT !.op = "update"], next_positions, res))

NextMalformed == CreateCall \/ MalformedCall

SpecMalformed == Init /\ [][NextMalformed]_vars

-----------------------------------------------------------------------------
(* Properties *)

\* The objects of the roster, 1..n.
Objects == IF circles = None THEN {} ELSE 1..Len(Get(circles))

\* The AssignmentResults of the call rs that are for object i.
ResultsFor(rs, i) == {a \in 1..Len(rs) : rs[a].index_circle = i - 1}

\* The track() calls of the call log t that fed the counter of object i.
TracksOf(t, i) == {a \in 1..Len(t) : t[a][1] = i}

\* C1, as claimed: whenever two consecutive AssignmentResults for an object
\* are both unreliable, the first of them was rejected and the second is
\* accepted (missCount 1 -> 0, position set to its nextPosition).
C1_TwoUnreliableAsClaimed ==
    [][path' = "match" =>
        \A i \in Objects : \A a \in ResultsFor(results', i) :
            (~results'[a].relible /\ last[i].seen /\ ~last[i].relible) =>
                /\ ~last[i].accepted
                /\ Get(ignore)[i] = 1
                /\ Get(ignore')[i] = 0
                /\ Get(circles')[i].pos = results'[a].next_position]_vars

\* C1, amended: two consecutive unreliable AssignmentResults for an object are
\* never both rejected; and when the object's missCount is 0 before the first
\* of them, the first is rejected (missCount 0 -> 1, position unchanged) and
\* the second is accepted (missCount 1 -> 0, position set to its nextPosition).
C1_Hysteresis ==
    [][path' = "match" =>
        \A i \in Objects : \A a \in ResultsFor(results', i) :
            ~results'[a].relible =>
                /\ (last[i].seen /\ ~last[i].relible /\ ~last[i].accepted)
                      => last'[i].accepted
                /\ Get(ignore)[i] = 0 =>
                      /\ ~last'[i].accepted
                      /\ Get(ignore')[i] = 1
                      /\ Get(circles')[i].pos = Get(circles)[i].pos
                /\ (last[i].seen /\ ~last[i].relible /\ last[i].before = 0) =>
                      /\ ~last[i].accepted
                      /\ Get(ignore)[i] = 1
                      /\ Get(ignore')[i] = 0
                      /\ last'[i].accepted
                      /\ Get(circles')[i].pos = results'[a].next_position]_vars

\* C1, witness: an unreliable result was accepted after an unreliable result
\* that was rejected, and it moved the object.
C1_Witness ==
    /\ path = "match"
    /\ \E i \in Objects : \E a \in ResultsFor(results, i) :
          /\ ~results[a].relible
          /\ last[i].accepted /\ last[i].before = 1
          /\ Get(ignore)[i] = 0
          /\ Get(circles)[i].pos = results[a].next_position
          /\ Get(circles)[i].visible

\* C2: the first update(positions) on an unset roster creates one object per
\* position, object i holding positions[i], with a fresh motion counter
\* (cycle count 0) and a missCount of 0 each, and calls no Matcher.
C2_FirstUpdateCreates ==
    (op = "update" /\ path = "init") =>
        /\ circles # None /\ region # None /\ ignore # None
        /\ Len(Get(circles)) = Len(arg)
        /\ Len(Get(region)) = Len(arg)
        /\ Len(Get(ignore)) = Len(arg)
        /\ \A i \in 1..Len(arg) :
              /\ Get(circles)[i].pos = arg[i]
              /\ Get(region)[i].sample = None
              /\ get_count(Get(region)[i]) = 0
              /\ Get(ignore)[i] = 0
        /\ calls = 0
        /\ results = <<>>

\* C2, witness: a roster created from two different positions.
C2_Witness ==
    /\ op = "update" /\ path = "init"
    /\ Len(arg) = 2 /\ arg[1] # arg[2]
    /\ Len(Get(circles)) = 2

\* C3: once the roster holds N objects, every call leaves the three lists
\* at length N, does not take the initializing path again, and leaves each
\* index on the same object.
C3_RosterFixed ==
    [][circles # None =>
        /\ circles' # None /\ region' # None /\ ignore' # None
        /\ Len(Get(circles')) = Len(Get(circles))
        /\ Len(Get(region')) = Len(Get(circles))
        /\ Len(Get(ignore')) = Len(Get(circles))
        /\ path' # "init"
        /\ \A i \in Objects : Get(circles')[i].id = Get(circles)[i].id]_vars

\* C3, witness: a roster of two after a predict() that handed update() a
\* shorter list.
C3_Witness ==
    /\ op = "predict" /\ path = "match"
    /\ Len(Get(circles)) = 2 /\ Len(Get(region)) = 2 /\ Len(Get(ignore)) = 2
    /\ Len(assignment.predicted_positions) = 1
    /\ Get(circles)[1].id = 1 /\ Get(circles)[2].id = 2

\* C4, as claimed: update([]) on an uninitialized Tracker initializes nothing
\* and leaves the Tracker uninitialized.
C4_EmptyUpdateIsNoop ==
    [][(circles = None /\ op' = "update" /\ arg' = <<>>) =>
          (circles' = None /\ region' = None /\ ignore' = None)]_vars

\* C5: after a match-and-apply call, an object is visible exactly when an
\* AssignmentResult for it was accepted in that call.
C5_VisibleIffAccepted ==
    (path = "match" /\ err = "none") =>
        \A i \in Objects :
            Get(circles)[i].visible <=>
                (\E a \in ResultsFor(results, i) : last[i].accepted)

\* C5, witness: one call accepted a result for one object, rejected a result
\* for another.
C5_Witness ==
    /\ path = "match" /\ err = "none"
    /\ \E i, j \in Objects :
          /\ ResultsFor(results, i) # {} /\ last[i].accepted
          /\ Get(circles)[i].visible
          /\ ResultsFor(results, j) # {} /\ ~last[j].accepted
          /\ ~Get(circles)[j].visible

\* C6: an accepted update for object i (reliable, or missCount[i] past the
\* threshold) sets the object's position and radius to nextPosition, marks
\* it visible, feeds nextPosition once to its motion counter and resets
\* missCount[i] to 0.
C6_AcceptedUpdate ==
    [][(path' = "match" /\ err' = "none") =>
        \A i \in Objects : \A a \in ResultsFor(results', i) :
            (results'[a].relible \/ Get(ignore)[i] > ignore_threshold) =>
                /\ Get(circles')[i].pos = results'[a].next_position
                /\ Get(circles')[i].visible
                /\ Cardinality(TracksOf(tracked', i)) = 1
                /\ \A t \in TracksOf(tracked', i) :
                      tracked'[t][2] = results'[a].next_position
                /\ Get(region')[i].sample = Some(results'[a].next_position)
                /\ Get(ignore')[i] = 0]_vars

\* C6, witness: one call accepted a reliable result for one object and an
\* unreliable one, by force, for another.
C6_Witness ==
    /\ path = "match" /\ err = "none"
    /\ Len(tracked) = 2
    /\ \E i, j \in Objects : \E a \in ResultsFor(results, i) :
       \E b \in ResultsFor(results, j) :
          /\ results[a].relible /\ last[i].accepted
          /\ ~results[b].relible /\ last[j].accepted /\ last[j].before = 1
          /\ Get(ignore)[i] = 0 /\ Get(ignore)[j] = 0

\* C7: in one predict() call no candidate center is claimed by two objects,
\* and each object claims one candidate at most (one entry per claim).
C7_Exclusive ==
    (op = "predict" /\ path = "match") =>
        LET cl == assignment.claimed
        IN /\ Len(cl) = Len(Get(circles))
           /\ \A i \in 1..Len(cl) : cl[i] \in 0..Len(assignment.centers)
           /\ \A i, j \in 1..Len(cl) : (i # j /\ cl[i] # 0) => cl[i] # cl[j]
           /\ Len(assignment.predicted_positions)
                 = Cardinality({i \in 1..Len(cl) : cl[i] # 0})

\* C7, witness: two objects predicted at the same point, each with a
\* candidate of its own.
C7_Witness ==
    /\ op = "predict" /\ path = "match"
    /\ Len(assignment.claimed) = 2
    /\ assignment.points[1] = assignment.points[2]
    /\ assignment.claimed[1] # 0 /\ assignment.claimed[2] # 0
    /\ assignment.claimed[1] # assignment.claimed[2]

C9_PredictNoop ==
    [][(op' = "predict" /\ (circles = None \/ arg' = <<>>)) =>
          /\ circles' = circles
          /\ region' = region
          /\ ignore' = ignore
          /\ skip' = skip
          /\ calls' = 0
          /\ tracked' = <<>>
          /\ err' = "none"]_vars

\* C9, witness: predict() with no rectangle returned on a roster that holds
\* a visible object and an object with a miss.
C9_Witness ==
    /\ op = "predict" /\ path = "noop" /\ arg = <<>>
    /\ circles # None
    /\ \E i, j \in Objects :
          Get(circles)[i].visible /\ ~Get(circles)[j].visible /\ Get(ignore)[j] = 1

C11_CycleCountAsClaimed ==
    /\ op = "get_complete_motions" =>
          LET i == arg[1]
          IN IF region # None /\ i \in 0..(Len(Get(region)) - 1)
             THEN err = "none" /\ ret = Some(get_count(Get(region)[i + 1]))
             ELSE err = "IndexError" /\ ret = None
    /\ op = "len" =>
          /\ err = "none"
          /\ ret = Some(IF circles = None THEN 0 ELSE Len(Get(circles)))

\* C12, as claimed: when Matcher.match returns a result whose index_circle
\* is outside 0..N-1, negative ones included, update() ends in an error and
\* no motion counter is fed by that result.
C12_MalformedIndexFails ==
    [][(op' = "update" /\ path' = "match") =>
        \A a \in 1..Len(results') :
            (/\ results'[a].index_circle \notin 0..(Len(Get(circles)) - 1)
             /\ \A b \in 1..(a - 1) :
                   results'[b].index_circle \in 0..(Len(Get(circles)) - 1)) =>
                /\ err' # "none"
                /\ Len(tracked') < a]_vars

\* C13: from any state of an initialized Tracker, a reliable result for
\* object i leaves the object's stored position equal to the result's
\* position and missCount[i] at 0; when it repeats the reliable result before
\* it, the position is the one already stored and missCount[i] was 0 already,
\* so the same holds after each repetition.
C13_RepeatedReliable ==
    [][(path' = "match" /\ err' = "none") =>
        \A i \in Objects : \A a \in ResultsFor(results', i) :
            results'[a].relible =>
                /\ Get(circles')[i].pos = results'[a].next_position
                /\ Get(ignore')[i] = 0
                /\ last'[i].same =>
                      /\ Get(circles)[i].pos = results'[a].next_position
                      /\ Get(circles')[i].pos = Get(circles)[i].pos
                      /\ Get(ignore)[i] = 0]_vars

\* C13, witness: an object received the same position reliably twice in a row
\* and holds it, another one received a reliable result with its missCount
\* at 1.
C13_Witness ==
    /\ path = "match" /\ err = "none"
    /\ \E i, j \in Objects : \E a \in ResultsFor(results, i) :
          /\ results[a].relible /\ last[i].same
          /\ Get(circles)[i].pos = results[a].next_position
          /\ Get(ignore)[i] = 0
          /\ ResultsFor(results, j) # {}
          /\ last[j].relible /\ last[j].before = 1 /\ Get(ignore)[j] = 0

\* C14: a rejected AssignmentResult for object i (not reliable, missCount[i]
\* not past the threshold) leaves the object's position and radius as they
\* were, leaves it invisible, feeds nothing to its motion counter and adds
\* exactly 1 to missCount[i]; every other object keeps its position and
\* missCount unless a result of its own changes them.
C14_RejectedUpdate ==
    [][(path' = "match" /\ err' = "none") =>
        \A i \in Objects : \A a \in ResultsFor(results', i) :
            (~results'[a].relible /\ Get(ignore)[i] <= ignore_threshold) =>
                /\ Get(circles')[i].pos = Get(circles)[i].pos
                /\ ~Get(circles')[i].visible
                /\ TracksOf(tracked', i) = {}
                /\ Get(region')[i] = Get(region)[i]
                /\ Get(ignore')[i] = Get(ignore)[i] + 1
                /\ \A j \in Objects \ {i} :
                      IF ResultsFor(results', j) = {}
                      THEN /\ Get(circles')[j].pos = Get(circles)[j].pos
                           /\ Get(ignore')[j] = Get(ignore)[j]
                      ELSE \A b \in ResultsFor(results', j) :
                           IF last'[j].accepted
                           THEN /\ Get(circles')[j].pos = results'[b].next_position
                                /\ Get(ignore')[j] = 0
                           ELSE /\ Get(circles')[j].pos = Get(circles)[j].pos
                                /\ Get(ignore')[j] = Get(ignore)[j] + 1]_vars

\* C14, witness: the one result of a call was rejected; it carried a position
\* other than the object's, and the other object of the roster had none.
C14_Witness ==
    /\ path = "match" /\ err = "none"
    /\ Len(results) = 1 /\ tracked = <<>>
    /\ \E i \in Objects : \E j \in Objects \ {i} :
          /\ ResultsFor(results, i) = {1}
          /\ ~results[1].relible /\ ~last[i].accepted /\ last[i].before = 0
          /\ Get(circles)[i].pos # results[1].next_position
          /\ ~Get(circles)[i].visible
          /\ Get(ignore)[i] = 1
          /\ Get(ignore)[j] = 0

\* The candidates left to object k of a predict(): those that no object
\* before k claimed.
Unclaimed(cl, m, k) == {j \in 1..m : \A e \in 1..(k - 1) : cl[e] # j}

\* The objects that claimed a candidate.
Claimers(cl) == {k \in 1..Len(cl) : cl[k] # 0}

\* C15: predict() takes the objects in roster order; object k claims, of the
\* candidates that no object before it claimed, one at the smallest squared
\* distance from its predicted point (none only when none is left); the
\* entry for object k is (claimed center x, claimed center y, the radius
\* object k holds), and the entries are in roster order.
C15_Greedy ==
    [][(op' = "predict" /\ path' = "match") =>
        LET cl == assignment'.claimed
            ce == assignment'.centers
            pp == assignment'.predicted_positions
        IN /\ Len(cl) = Len(Get(circles))
           /\ ce = rect_centers(arg')
           /\ \A k \in 1..Len(cl) :
                 LET d    == distances(ce, predict_position(Get(circles)[k]))
                     free == Unclaimed(cl, Len(ce), k)
                 IN IF free = {} THEN cl[k] = 0
                    ELSE cl[k] \in free /\ \A j \in free : d[cl[k]] <= d[j]
           /\ Len(pp) = Cardinality(Claimers(cl))
           /\ \A k \in Claimers(cl) :
                 pp[Cardinality({e \in Claimers(cl) : e <= k})]
                    = <<ce[cl[k]][1], ce[cl[k]][2], get_radius(Get(circles)[k])>>]_vars

\* C15, witness: two objects of different radius claimed a candidate each,
\* and the two claims cost more than the two claims exchanged would.
C15_Witness ==
    /\ op = "predict" /\ path = "match"
    /\ Len(assignment.claimed) = 2
    /\ assignment.claimed[1] # 0 /\ assignment.claimed[2] # 0
    /\ LET d1 == distances(assignment.centers, assignment.points[1])
           d2 == distances(assignment.centers, assignment.points[2])
       IN /\ d1[assignment.claimed[1]] < d1[assignment.claimed[2]]
          /\ d1[assignment.claimed[1]] + d2[assignment.claimed[2]]
                > d1[assignment.claimed[2]] + d2[assignment.claimed[1]]
    /\ assignment.predicted_positions[1][3] # assignment.predicted_positions[2][3]

\* C16: for a roster of N objects and M >= 1 rectangles, the list predict()
\* hands to update() has min(N, M) entries: objects 1..min(N, M) in roster
\* order have an entry each, the objects after them none, and update() runs
\* on that list as it is (one Matcher call, no error).
C16_MinEntries ==
    (op = "predict" /\ path = "match") =>
        LET N  == Len(Get(circles))
            M  == Len(arg)
            cl == assignment.claimed
        IN /\ M >= 1
           /\ Len(cl) = N
           /\ Len(assignment.predicted_positions) = (IF N < M THEN N ELSE M)
           /\ \A k \in 1..N : cl[k] # 0 <=> k <= M
           /\ calls = 1
           /\ err = "none"

\* C16, witness: two objects and one rectangle; the first object has the
\* only entry of the list.
C16_Witness ==
    /\ op = "predict" /\ path = "match"
    /\ Len(Get(circles)) = 2 /\ Len(arg) = 1
    /\ assignment.claimed = <<1, 0>>
    /\ Len(assignment.predicted_positions) = 1
    /\ calls = 1

\* C17: in a match-and-apply call, an object for which Matcher.match returns
\* no result keeps its position, radius and missCount, has no sample fed to
\* its motion counter, and is left invisible.
C17_NoResultNoUpdate ==
    [][(path' = "match" /\ err' = "none") =>
        \A i \in Objects :
            ResultsFor(results', i) = {} =>
                /\ Get(circles')[i].pos = Get(circles)[i].pos
                /\ Get(circles')[i].id = Get(circles)[i].id
                /\ Get(ignore')[i] = Get(ignore)[i]
                /\ TracksOf(tracked', i) = {}
                /\ Get(region')[i] = Get(region)[i]
                /\ last'[i] = last[i]
                /\ ~Get(circles')[i].visible]_vars

\* C17, witness: a call brought an accepted result for one object and none
\* for another, whose last result, accepted in an earlier call, had moved it.
C17_Witness ==
    /\ path = "match" /\ err = "none"
    /\ \E i, j \in Objects :
          /\ ResultsFor(results, i) = {}
          /\ last[i].seen /\ last[i].accepted
          /\ Get(region)[i].sample = Some(Get(circles)[i].pos)
          /\ Get(ignore)[i] = 0
          /\ ~Get(circles)[i].visible
          /\ ResultsFor(results, j) # {} /\ last[j].accepted
          /\ TracksOf(tracked, i) = {} /\ TracksOf(tracked, j) # {}

\* C18: with a Matcher that returns one result per object at most, every
\* missCount of an initialized Tracker is in 0..ignore_threshold + 1, that
\* is 0 or 1, in every reachable state.
C18_MissCountRange ==
    ignore # None =>
        /\ Len(Get(ignore)) = Len(Get(circles))
        /\ \A i \in 1..Len(Get(ignore)) :
              Get(ignore)[i] \in 0..(ignore_threshold + 1)

\* C18, witness: both objects of a roster are at the top of the range, one of
\* them after it had been reset by an accepted result.
C18_Witness ==
    /\ ignore # None /\ Len(Get(ignore)) = 2
    /\ \A i \in 1..2 :
          /\ Get(ignore)[i] = ignore_threshold + 1
          /\ last[i].seen /\ ~last[i].accepted /\ last[i].before = 0
    /\ \E i \in 1..2 : Get(region)[i].sample # None

=============================================================================
